---- MODULE Spec2Model ----
(***************************************************************************)
(* Model of the gold/silver rate proxy (server.js): the GET /api/rates     *)
(* handler, its JSON flattener, numeric parser, heuristic extractor and    *)
(* unit converter.                                                         *)
(*                                                                         *)
(* JavaScript values are records [t, v]:                                   *)
(*   undefined  [t |-> "undef", v |-> 0]     null  [t |-> "null", v |-> 0] *)
(*   boolean    [t |-> "bool",  v |-> TRUE]  string [t |-> "str", v |-> s] *)
(*   number     [t |-> "num",   v |-> <<n, d>>]                            *)
(*   array      [t |-> "arr",   v |-> <<value, ...>>]                      *)
(*   object     [t |-> "obj",   v |-> << <<key, value>>, ... >>]           *)
(* A number <<n, d>> is the rational n/d in lowest terms with d > 0;       *)
(* <<1,0>> is Infinity, <<-1,0>> is -Infinity and <<0,0>> is NaN.  The     *)
(* rationals are exact: the rounding of IEEE doubles and the sign of zero  *)
(* are not modelled.                                                       *)
(***************************************************************************)
EXTENDS Integers, Sequences, FiniteSets, TLC

(***************************************************************************)
(* Strings                                                                 *)
(***************************************************************************)
\* The characters a..b of s that exist (none when a > b or a > Len(s)).
Slice(s, a, b) ==
  IF a > b \/ a > Len(s) THEN ""
  ELSE SubSeq(s, a, IF b > Len(s) THEN Len(s) ELSE b)

CharAt(s, i) == SubSeq(s, i, i)

\* F applied to value: a local binding, `const x = v; ... x ...`.
With(value, F(_)) == F(value)

\* String.prototype.trim strips these (the white space of the modelled alphabet).
WhiteSpace == {" ", "\t", "\n", "\r"}

Digits == {"0", "1", "2", "3", "4", "5", "6", "7", "8", "9"}

RECURSIVE TrimLeft(_)
TrimLeft(s) ==
  IF Len(s) > 0 /\ Head(s) \in WhiteSpace THEN TrimLeft(Tail(s)) ELSE s

RECURSIVE TrimRight(_)
TrimRight(s) ==
  IF Len(s) > 0 /\ CharAt(s, Len(s)) \in WhiteSpace
  THEN TrimRight(SubSeq(s, 1, Len(s) - 1)) ELSE s

Trim(s) == TrimRight(TrimLeft(s))

StartsWith(s, p) == Len(s) >= Len(p) /\ SubSeq(s, 1, Len(p)) = p

EndsWith(s, p) == Len(s) >= Len(p) /\ SubSeq(s, Len(s) - Len(p) + 1, Len(s)) = p

Includes(s, p) ==
  \E i \in 1..(Len(s) - Len(p) + 1) : SubSeq(s, i, i + Len(p) - 1) = p

LowerOf(c) ==
  CASE c = "A" -> "a" [] c = "B" -> "b" [] c = "C" -> "c" [] c = "D" -> "d"
    [] c = "E" -> "e" [] c = "F" -> "f" [] c = "G" -> "g" [] c = "H" -> "h"
    [] c = "I" -> "i" [] c = "J" -> "j" [] c = "K" -> "k" [] c = "L" -> "l"
    [] c = "M" -> "m" [] c = "N" -> "n" [] c = "O" -> "o" [] c = "P" -> "p"
    [] c = "Q" -> "q" [] c = "R" -> "r" [] c = "S" -> "s" [] c = "T" -> "t"
    [] c = "U" -> "u" [] c = "V" -> "v" [] c = "W" -> "w" [] c = "X" -> "x"
    [] c = "Y" -> "y" [] c = "Z" -> "z" [] OTHER -> c

UpperOf(c) ==
  CASE c = "a" -> "A" [] c = "b" -> "B" [] c = "c" -> "C" [] c = "d" -> "D"
    [] c = "e" -> "E" [] c = "f" -> "F" [] c = "g" -> "G" [] c = "h" -> "H"
    [] c = "i" -> "I" [] c = "j" -> "J" [] c = "k" -> "K" [] c = "l" -> "L"
    [] c = "m" -> "M" [] c = "n" -> "N" [] c = "o" -> "O" [] c = "p" -> "P"
    [] c = "q" -> "Q" [] c = "r" -> "R" [] c = "s" -> "S" [] c = "t" -> "T"
    [] c = "u" -> "U" [] c = "v" -> "V" [] c = "w" -> "W" [] c = "x" -> "X"
    [] c = "y" -> "Y" [] c = "z" -> "Z" [] OTHER -> c

SetMax(S) == CHOOSE x \in S : \A y \in S : y <= x

SetMin(S) == CHOOSE x \in S : \A y \in S : x <= y

\* The concatenation of a sequence of strings (by halves, to keep the
\* evaluation shallow).
RECURSIVE Join(_)
Join(parts) ==
  IF Len(parts) = 0 THEN ""
  ELSE IF Len(parts) = 1 THEN parts[1]
  ELSE Join(SubSeq(parts, 1, Len(parts) \div 2))
       \o Join(SubSeq(parts, Len(parts) \div 2 + 1, Len(parts)))

ToLowerCase(s) == Join([i \in 1..Len(s) |-> LowerOf(CharAt(s, i))])

ToUpperCase(s) == Join([i \in 1..Len(s) |-> UpperOf(CharAt(s, i))])

\* The last element of s.split('.'): the text after the last '.', or all of s.
SplitPop(s) ==
  LET dots == {i \in 1..Len(s) : CharAt(s, i) = "."}
  IN  IF dots = {} THEN s ELSE Slice(s, SetMax(dots) + 1, Len(s))

DigitVal(c) ==
  CASE c = "0" -> 0 [] c = "1" -> 1 [] c = "2" -> 2 [] c = "3" -> 3
    [] c = "4" -> 4 [] c = "5" -> 5 [] c = "6" -> 6 [] c = "7" -> 7
    [] c = "8" -> 8 [] c = "9" -> 9
    [] c \in {"a", "A"} -> 10 [] c \in {"b", "B"} -> 11
    [] c \in {"c", "C"} -> 12 [] c \in {"d", "D"} -> 13
    [] c \in {"e", "E"} -> 14 [] c \in {"f", "F"} -> 15
    [] OTHER -> 99

DigitChar(n) == CharAt("0123456789", n + 1)

\* String(i) of a non-negative integer, as in the template `${path}[${i}]`.
RECURSIVE IntToStr(_)
IntToStr(n) ==
  IF n < 10 THEN DigitChar(n) ELSE IntToStr(n \div 10) \o DigitChar(n % 10)

(***************************************************************************)
(* Numbers                                                                 *)
(***************************************************************************)
Abs(n) == IF n < 0 THEN -n ELSE n

Sign(n) == IF n < 0 THEN -1 ELSE IF n > 0 THEN 1 ELSE 0

RECURSIVE GCD(_, _)
GCD(a, b) == IF b = 0 THEN a ELSE GCD(b, a % b)

\* n/d in lowest terms, d >= 0; a zero denominator keeps only the sign of n.
Norm(n, d) ==
  IF d = 0 THEN <<Sign(n), 0>>
  ELSE LET g == GCD(Abs(n), Abs(d))
       IN  <<Sign(d) * (n \div g), Abs(d) \div g>>

PosInf == <<1, 0>>
NegInf == <<-1, 0>>
NaN == <<0, 0>>
Zero == <<0, 1>>

IsNaN(q) == q = NaN

\* Number.isFinite
IsFiniteNum(q) == q[2] # 0

\* a * b, cross-cancelled before multiplying; Infinity * 0 is NaN.
Mul(a, b) ==
  IF a[2] = 0 \/ b[2] = 0 THEN Norm(a[1] * b[1], 0)
  ELSE LET g1 == GCD(Abs(a[1]), b[2])
           g2 == GCD(Abs(b[1]), a[2])
       IN  <<(a[1] \div g1) * (b[1] \div g2), (a[2] \div g2) * (b[2] \div g1)>>

\* 1 / b; 1 / 0 is Infinity (the zero of the model is +0).
Recip(b) ==
  IF b = NaN THEN NaN
  ELSE IF b[2] = 0 THEN Zero
  ELSE IF b[1] = 0 THEN PosInf
  ELSE IF b[1] < 0 THEN <<-b[2], -b[1]>>
  ELSE <<b[2], b[1]>>

\* a / b
Div(a, b) == Mul(a, Recip(b))

\* The sign of a - b; 0 when a - b is 0 or NaN.
CmpNum(a, b) ==
  IF a = NaN \/ b = NaN THEN 0
  ELSE IF a[2] = 0 \/ b[2] = 0
       THEN (IF a[2] = 0 THEN a[1] ELSE 0) - (IF b[2] = 0 THEN b[1] ELSE 0)
  ELSE Sign(a[1] * b[2] - b[1] * a[2])

RECURSIVE Pow(_, _)
Pow(b, k) == IF k = 0 THEN 1 ELSE b * Pow(b, k - 1)

RECURSIVE NumDigits(_)
NumDigits(n) == IF n < 10 THEN 1 ELSE 1 + NumDigits(n \div 10)

\* The first index >= i of s that holds no decimal digit (Len(s) + 1 if none).
RECURSIVE ScanDigits(_, _)
ScanDigits(s, i) ==
  IF i <= Len(s) /\ CharAt(s, i) \in Digits THEN ScanDigits(s, i + 1) ELSE i

RECURSIVE RadixToInt(_, _)
RadixToInt(s, r) ==
  IF s = "" THEN 0
  ELSE RadixToInt(SubSeq(s, 1, Len(s) - 1), r) * r + DigitVal(CharAt(s, Len(s)))

\* The largest and smallest decimal exponents of a double: a literal beyond
\* them converts to Infinity or to 0.
MaxDecimalExponent == 309
MinDecimalExponent == -323

\* The value of the decimal literal  [-] int . frac e [-] exp.
DecimalValue(neg, int, frac, expNeg, exp) ==
  LET m   == RadixToInt(int \o frac, 10)
      e   == (IF expNeg THEN -1 ELSE 1) * RadixToInt(exp, 10) - Len(frac)
      sgn == IF neg THEN -1 ELSE 1
      mag == NumDigits(m) + e
  IN  IF m = 0 THEN Zero
      ELSE IF mag > MaxDecimalExponent THEN <<sgn, 0>>
      ELSE IF mag < MinDecimalExponent THEN Zero
      ELSE IF e >= 0 THEN <<sgn * m * Pow(10, e), 1>>
      ELSE Norm(sgn * m, Pow(10, -e))

AllDigitsBelow(s, r) == \A i \in 1..Len(s) : DigitVal(CharAt(s, i)) < r

\* The exponent part of s from index b on (empty, or e [+-] digits up to the end
\* of s) applied to the digits int and frac; NaN when it is anything else.
DecimalExponent(s, neg, int, frac, b) ==
  IF b = Len(s) + 1 THEN DecimalValue(neg, int, frac, FALSE, "")
  ELSE IF CharAt(s, b) \notin {"e", "E"} THEN NaN
  ELSE With(IF CharAt(s, b + 1) \in {"+", "-"} THEN b + 2 ELSE b + 1, LAMBDA c :
         IF c > Len(s) \/ ScanDigits(s, c) # Len(s) + 1 THEN NaN
         ELSE DecimalValue(neg, int, frac, CharAt(s, b + 1) = "-",
                           SubSeq(s, c, Len(s))))

\* StrDecimalLiteral without the sign: digits [. digits] [e [+-] digits], with a
\* digit on at least one side of the point.  NaN when s is not of that form.
UnsignedDecimal(s, neg) ==
  With(ScanDigits(s, 1), LAMBDA a :
    IF a <= Len(s) /\ CharAt(s, a) = "."
    THEN With(ScanDigits(s, a + 1), LAMBDA b :
           IF a = 1 /\ b = a + 1 THEN NaN
           ELSE DecimalExponent(s, neg, SubSeq(s, 1, a - 1),
                                SubSeq(s, a + 1, b - 1), b))
    ELSE IF a = 1 THEN NaN
    ELSE DecimalExponent(s, neg, SubSeq(s, 1, a - 1), "", a))

RadixLiteral(s, r) ==
  IF s # "" /\ AllDigitsBelow(s, r) THEN <<RadixToInt(s, r), 1>> ELSE NaN

\* Number(s) of a string s (ECMAScript StringToNumber).
\* A trimmed, non-empty s with its radix prefix pre, or with its sign split off.
StringNumericLiteral(s, pre, body) ==
  IF pre = "0x" THEN RadixLiteral(Slice(s, 3, Len(s)), 16)
  ELSE IF pre = "0o" THEN RadixLiteral(Slice(s, 3, Len(s)), 8)
  ELSE IF pre = "0b" THEN RadixLiteral(Slice(s, 3, Len(s)), 2)
  ELSE IF body = "Infinity" THEN (IF Head(s) = "-" THEN NegInf ELSE PosInf)
  ELSE UnsignedDecimal(body, Head(s) = "-")

StringToNumber(str) ==
  With(Trim(str), LAMBDA s :
    IF s = "" THEN Zero
    ELSE StringNumericLiteral(s, ToLowerCase(Slice(s, 1, 2)),
                              IF Head(s) \in {"+", "-"} THEN Tail(s) ELSE s))

(***************************************************************************)
(* JavaScript values                                                       *)
(***************************************************************************)
Undefined == [t |-> "undef", v |-> 0]
Null == [t |-> "null", v |-> 0]
Bool(b) == [t |-> "bool", v |-> b]
Str(s) == [t |-> "str", v |-> s]
NumQ(q) == [t |-> "num", v |-> q]
Num(n) == NumQ(<<n, 1>>)
Arr(items) == [t |-> "arr", v |-> items]
Obj(props) == [t |-> "obj", v |-> props]

\* x == null
IsNullish(x) == x.t \in {"undef", "null"}

\* ToBoolean
Truthy(x) ==
  CASE x.t \in {"undef", "null"} -> FALSE
    [] x.t = "bool" -> x.v
    [] x.t = "num" -> x.v # NaN /\ x.v # Zero
    [] x.t = "str" -> x.v # ""
    [] OTHER -> TRUE

\* x && typeof x === 'object'
IsObjectLike(x) == x.t \in {"arr", "obj"}

\* a || b   and   a ?? b
OrElse(a, b) == IF Truthy(a) THEN a ELSE b
Coalesce(a, b) == IF IsNullish(a) THEN b ELSE a

\* A canonical array index: "0", or digits with no leading zero.
IsIndexKey(k) ==
  /\ k # ""
  /\ \A i \in 1..Len(k) : CharAt(k, i) \in Digits
  /\ (Len(k) > 1 => Head(k) # "0")

PropIndex(props, k) == {i \in 1..Len(props) : props[i][1] = k}

HasProp(props, k) == PropIndex(props, k) # {}

\* obj[k] = v on an ordinary object: an existing key keeps its place; a new index
\* key goes among the index keys in ascending order, which precede every other key;
\* any other new key goes last.
SetProp(props, k, v) ==
  IF HasProp(props, k)
  THEN [i \in 1..Len(props) |-> IF props[i][1] = k THEN <<k, v>> ELSE props[i]]
  ELSE IF IsIndexKey(k)
  THEN LET before == {i \in 1..Len(props) :
                        /\ IsIndexKey(props[i][1])
                        /\ RadixToInt(props[i][1], 10) < RadixToInt(k, 10)}
           n == Cardinality(before)
       IN  SubSeq(props, 1, n) \o << <<k, v>> >> \o SubSeq(props, n + 1, Len(props))
  ELSE Append(props, <<k, v>>)

\* x[k] for a string key k that is neither an inherited nor a built-in property
\* name: the own property of an object, the element of an array, the character
\* of a string; undefined otherwise.
GetProp(x, k) ==
  CASE x.t = "obj" ->
         IF HasProp(x.v, k)
         THEN x.v[CHOOSE i \in PropIndex(x.v, k) : TRUE][2] ELSE Undefined
    [] x.t = "arr" ->
         IF IsIndexKey(k) /\ RadixToInt(k, 10) < Len(x.v)
         THEN x.v[RadixToInt(k, 10) + 1] ELSE Undefined
    [] x.t = "str" ->
         IF IsIndexKey(k) /\ RadixToInt(k, 10) < Len(x.v)
         THEN Str(CharAt(x.v, RadixToInt(k, 10) + 1)) ELSE Undefined
    [] OTHER -> Undefined

\* Object.keys(x) for a non-nullish x.
ObjectKeys(x) ==
  CASE x.t = "obj" -> [i \in 1..Len(x.v) |-> x.v[i][1]]
    [] x.t \in {"arr", "str"} -> [i \in 1..Len(x.v) |-> IntToStr(i - 1)]
    [] OTHER -> <<>>

\* ToNumber, as applied by the operators / and *.
RECURSIVE ToNumber(_)
ToNumber(x) ==
  CASE x.t = "undef" -> NaN
    [] x.t = "null" -> Zero
    [] x.t = "bool" -> IF x.v THEN <<1, 1>> ELSE Zero
    [] x.t = "num" -> x.v
    [] x.t = "str" -> StringToNumber(x.v)
    [] x.t = "arr" ->
         \* Number(String(array)): the join of zero or one element converts
         \* like that element's string; two or more elements hold a comma.
         IF Len(x.v) = 0 THEN Zero
         ELSE IF Len(x.v) > 1 THEN NaN
         ELSE IF x.v[1].t \in {"undef", "null"} THEN Zero
         ELSE IF x.v[1].t \in {"bool", "obj"} THEN NaN
         ELSE ToNumber(x.v[1])
    [] OTHER -> NaN

(***************************************************************************)
(* JSON.parse.  A parse result is [ok, val, pos]: pos is the index after   *)
(* the text consumed.  Escapes other than \" \\ \/ \n \t \r are outside    *)
(* the modelled alphabet and are rejected.                                 *)
(***************************************************************************)
ParseFail == [ok |-> FALSE, val |-> Undefined, pos |-> 0]

ParseOk(val, pos) == [ok |-> TRUE, val |-> val, pos |-> pos]

RECURSIVE SkipWS(_, _)
SkipWS(s, i) ==
  IF i <= Len(s) /\ CharAt(s, i) \in WhiteSpace THEN SkipWS(s, i + 1) ELSE i

Unescape(c) ==
  CASE c = "n" -> "\n" [] c = "t" -> "\t" [] c = "r" -> "\r" [] OTHER -> c

\* The number of consecutive backslashes of s that end just before index p,
\* counted no further back than index i.
BackslashRun(s, i, p) ==
  With({m \in i..(p - 1) : CharAt(s, m) # "\\"}, LAMBDA others :
    p - 1 - (IF others = {} THEN i - 1 ELSE SetMax(others)))

\* The backslash at p starts an escape; the character at p is escaped.
StartsEscape(s, i, p) == CharAt(s, p) = "\\" /\ BackslashRun(s, i, p) % 2 = 0
IsEscaped(s, i, p) == p > i /\ StartsEscape(s, i, p - 1)

\* The string whose characters are s[i..j-1], with its escapes resolved.
StringBetween(s, i, j) ==
  IF \A p \in i..(j - 1) :
       IF IsEscaped(s, i, p)
       THEN CharAt(s, p) \in {"\"", "\\", "/", "n", "t", "r"}
       ELSE CharAt(s, p) \notin {"\n", "\t", "\r"}
  THEN ParseOk(Str(Join([k \in 1..(j - i) |->
                           IF IsEscaped(s, i, i + k - 1)
                           THEN Unescape(CharAt(s, i + k - 1))
                           ELSE IF CharAt(s, i + k - 1) = "\\" THEN ""
                           ELSE CharAt(s, i + k - 1)])),
               j + 1)
  ELSE ParseFail

\* The characters of a JSON string from index i (after the opening quote) up to
\* the first quote that is not escaped.
ParseStringBody(s, i) ==
  With({j \in i..Len(s) : CharAt(s, j) = "\"" /\ ~IsEscaped(s, i, j)},
       LAMBDA closing :
         IF closing = {} THEN ParseFail
         ELSE StringBetween(s, i, SetMin(closing)))

\* The exponent of a JSON number, if any, from index c on; the number's digits
\* are s[a..b-1] and, after the point, s[b+1..c-1].
ParseExponentAt(s, neg, int, frac, c) ==
  IF c <= Len(s) /\ CharAt(s, c) \in {"e", "E"}
  THEN With(IF c + 1 <= Len(s) /\ CharAt(s, c + 1) \in {"+", "-"}
            THEN c + 2 ELSE c + 1, LAMBDA d :
         With(ScanDigits(s, d), LAMBDA e :
           IF e = d THEN ParseFail
           ELSE ParseOk(NumQ(DecimalValue(neg, int, frac, CharAt(s, c + 1) = "-",
                                          SubSeq(s, d, e - 1))), e)))
  ELSE ParseOk(NumQ(DecimalValue(neg, int, frac, FALSE, "")), c)

\* The fraction of a JSON number, if any, from index b on, after the integer
\* digits s[a..b-1].
ParseFractionAt(s, neg, a, b) ==
  IF b = a THEN ParseFail
  ELSE IF b <= Len(s) /\ CharAt(s, b) = "."
  THEN With(ScanDigits(s, b + 1), LAMBDA c :
         IF c = b + 1 THEN ParseFail
         ELSE ParseExponentAt(s, neg, SubSeq(s, a, b - 1),
                              SubSeq(s, b + 1, c - 1), c))
  ELSE ParseExponentAt(s, neg, SubSeq(s, a, b - 1), "", b)

\* A JSON number at index i:  -? (0 | [1-9] digits) (. digits+)? ([eE] [+-]? digits+)?
ParseNumberAt(s, i) ==
  With(IF CharAt(s, i) = "-" THEN i + 1 ELSE i, LAMBDA a :
    ParseFractionAt(s, a > i, a,
                    IF a <= Len(s) /\ CharAt(s, a) = "0" THEN a + 1
                    ELSE ScanDigits(s, a)))

RECURSIVE ParseValue(_, _), ParseElements(_, _, _), ParseMembers(_, _, _)

\* The JSON value that starts at index j, which holds no white space.
ParseValueAt(s, j) ==
  IF j > Len(s) THEN ParseFail
  ELSE IF CharAt(s, j) = "{"
  THEN With(SkipWS(s, j + 1), LAMBDA k :
         IF k <= Len(s) /\ CharAt(s, k) = "}" THEN ParseOk(Obj(<<>>), k + 1)
         ELSE ParseMembers(s, k, <<>>))
  ELSE IF CharAt(s, j) = "["
  THEN With(SkipWS(s, j + 1), LAMBDA k :
         IF k <= Len(s) /\ CharAt(s, k) = "]" THEN ParseOk(Arr(<<>>), k + 1)
         ELSE ParseElements(s, k, <<>>))
  ELSE IF CharAt(s, j) = "\"" THEN ParseStringBody(s, j + 1)
  ELSE IF Slice(s, j, j + 3) = "true" THEN ParseOk(Bool(TRUE), j + 4)
  ELSE IF Slice(s, j, j + 4) = "false" THEN ParseOk(Bool(FALSE), j + 5)
  ELSE IF Slice(s, j, j + 3) = "null" THEN ParseOk(Null, j + 4)
  ELSE ParseNumberAt(s, j)

\* The JSON value that starts at or after index i.
ParseValue(s, i) == ParseValueAt(s, SkipWS(s, i))

\* After the element r at index j of s: the end of the array, or a comma.
AfterElement(s, acc, r, j) ==
  IF j > Len(s) THEN ParseFail
  ELSE IF CharAt(s, j) = "]" THEN ParseOk(Arr(Append(acc, r.val)), j + 1)
  ELSE IF CharAt(s, j) = "," THEN ParseElements(s, j + 1, Append(acc, r.val))
  ELSE ParseFail

\* value (, value)* ]  from index i, after the elements acc.
ParseElements(s, i, acc) ==
  With(ParseValue(s, i), LAMBDA r :
    IF ~r.ok THEN ParseFail ELSE AfterElement(s, acc, r, SkipWS(s, r.pos)))

\* After the member k : r at index e of s: the end of the object, or a comma.
AfterMember(s, props, e) ==
  IF e > Len(s) THEN ParseFail
  ELSE IF CharAt(s, e) = "}" THEN ParseOk(Obj(props), e + 1)
  ELSE IF CharAt(s, e) = "," THEN ParseMembers(s, e + 1, props)
  ELSE ParseFail

\* The value of the member with key k, whose colon is expected at index c.
MemberValue(s, acc, k, c) ==
  IF c <= Len(s) /\ CharAt(s, c) = ":"
  THEN With(ParseValue(s, c + 1), LAMBDA r :
         IF ~r.ok THEN ParseFail
         ELSE AfterMember(s, SetProp(acc, k.val.v, r.val), SkipWS(s, r.pos)))
  ELSE ParseFail

\* The member whose key is expected at index j, which holds no white space.
MemberAt(s, acc, j) ==
  IF j <= Len(s) /\ CharAt(s, j) = "\""
  THEN With(ParseStringBody(s, j + 1), LAMBDA k :
         IF ~k.ok THEN ParseFail ELSE MemberValue(s, acc, k, SkipWS(s, k.pos)))
  ELSE ParseFail

\* "key" : value (, "key" : value)* }  from index i, after the properties acc.
ParseMembers(s, i, acc) == MemberAt(s, acc, SkipWS(s, i))

\* JSON.parse(s): [ok |-> TRUE, val |-> value], or ok = FALSE where it throws.
JSONParse(s) ==
  With(ParseValue(s, 1), LAMBDA r :
    IF r.ok /\ SkipWS(s, r.pos) = Len(s) + 1 THEN r ELSE ParseFail)

(***************************************************************************)
(* parseNumber and flatten                                                 *)
(***************************************************************************)
\* parseNumber(v): a number value, or null.
parseNumber(v) ==
  IF v.t = "num" /\ ~IsNaN(v.v) THEN v
  ELSE IF v.t = "str"
  THEN IF Trim(v.v) = "" THEN Null
       ELSE With(StringToNumber(Trim(v.v)), LAMBDA n :
              IF ~IsNaN(n) THEN NumQ(n) ELSE Null)
  ELSE Null

\* A helper that goes on with val where it has parsed it: helper(val, path) in
\* the place of helper(parsed, path).
DecodesToItself(val) ==
  IF val.t = "str"
     /\ (StartsWith(Trim(val.v), "{") \/ StartsWith(Trim(val.v), "["))
     /\ JSONParse(Trim(val.v)).ok
  THEN ParseOk(val, 0) ELSE ParseFail

\* The first lines of helper: a string whose trimmed text starts with { or [ and
\* that JSON.parse accepts is replaced by the parsed value.
TryDecode(val) ==
  IF val.t = "str"
  THEN With(Trim(val.v), LAMBDA s :
         IF StartsWith(s, "{") \/ StartsWith(s, "[")
         THEN JSONParse(s) ELSE ParseFail)
  ELSE ParseFail

\* The calls helper makes for an array or an object at path: <<value, path>> per
\* element (`${path}[${i}]`) or per key (path ? `${path}.${k}` : k), in order.
Children(val, path) ==
  IF val.t = "arr"
  THEN [i \in 1..Len(val.v) |->
          <<val.v[i], path \o "[" \o IntToStr(i - 1) \o "]">>]
  ELSE [i \in 1..Len(val.v) |->
          <<val.v[i][2],
            IF path # "" THEN path \o "." \o val.v[i][1] ELSE val.v[i][1]>>]

\* out.push({ path, key: path ? path.split('.').pop() : '', value: val })
LeafEntry(val, path) ==
  [path |-> path, key |-> IF path # "" THEN SplitPop(path) ELSE "", value |-> val]

\* The calls the engine's stack holds, helper's own nesting counted: a call of
\* helper nested deeper than this throws a RangeError.
StackLimit == 8

\* How a call of helper ends: it returns or it throws, having pushed out.
Returned(pushed) == [threw |-> FALSE, out |-> pushed]
Thrown(pushed) == [threw |-> TRUE, out |-> pushed]

\* catch (e) { }: helper(parsed, path) runs inside the try, so whatever it throws
\* is caught, and helper goes on with val, the string, which it pushes.
Caught(r, val, path) ==
  IF r.threw THEN Returned(Append(r.out, LeafEntry(val, path))) ELSE r

RECURSIVE helper(_, _, _), forEach(_, _, _, _)

\* helper(val, path), as call number depth of the stack.
helper(val, path, depth) ==
  IF depth > StackLimit THEN Thrown(<<>>)
  ELSE With(TryDecode(val), LAMBDA d :
         IF d.ok THEN Caught(helper(d.val, path, depth + 1), val, path)
         ELSE IF IsObjectLike(val)
         THEN forEach(Children(val, path), 1, depth + 1, <<>>)
         ELSE Returned(<<LeafEntry(val, path)>>))

\* The forEach of helper from child i on, after the entries pushed: it stops at
\* the first call that throws.
forEach(cs, i, depth, pushed) ==
  IF i > Len(cs) THEN Returned(pushed)
  ELSE With(helper(cs[i][1], cs[i][2], depth), LAMBDA r :
         IF r.threw THEN Thrown(pushed \o r.out)
         ELSE forEach(cs, i + 1, depth, pushed \o r.out))

\* flatten(obj): what it returns in out, unless it threw.
flatten(obj) == helper(obj, "", 1)

(***************************************************************************)
(* The extractor.  An optional entry (the result of Array.prototype.find)  *)
(* is a sequence of zero or one entries.                                   *)
(***************************************************************************)
lc(s) == ToLowerCase(s)

Find(entries, P(_)) ==
  With({i \in 1..Len(entries) : P(entries[i])}, LAMBDA hits :
    IF hits = {} THEN <<>> ELSE <<entries[SetMin(hits)]>>)

Filter(entries, P(_)) == SelectSeq(entries, P)

pickByKeyIncludes(entries, substrings) ==
  Find(entries, LAMBDA e : \A i \in 1..Len(substrings) :
                             Includes(lc(e.key), substrings[i]))

\* if (found) { const n = parseNumber(found.value); if (n != null) target = n; }
AssignFrom(target, found) ==
  IF found # <<>>
  THEN With(parseNumber(found[1].value), LAMBDA n :
         IF ~IsNullish(n) THEN n ELSE target)
  ELSE target

\* A step that assigns whether or not its target is resolved.
FillOverwrites(target, found) == AssignFrom(target, found)

\* if (target == null) { ...find...; assign }
FillFrom(target, found) ==
  IF IsNullish(target) THEN AssignFrom(target, found) ELSE target

findKey(entries, k) ==
  Find(entries, LAMBDA e : lc(e.key) = k \/ EndsWith(lc(e.path), "." \o k))

\* 1) direct keys containing 'gold'+'gram' or 'silver'+'gram'
Step1(entries, currency, st) ==
  [goldPerGram   |-> AssignFrom(st.goldPerGram,
                                pickByKeyIncludes(entries, <<"gold", "gram">>)),
   silverPerGram |-> AssignFrom(st.silverPerGram,
                                pickByKeyIncludes(entries, <<"silver", "gram">>))]

\* 2) country-specific keys like gram_in_inr
Step2(entries, currency, st) ==
  [goldPerGram   |-> FillFrom(st.goldPerGram,
                              findKey(entries, "gram_in_" \o currency)),
   silverPerGram |-> FillFrom(st.silverPerGram,
                              findKey(entries, "silver_gram_in_" \o currency))]

\* 3) generic 'gram' keys
Step3(entries, currency, st) ==
  [goldPerGram   |->
     FillFrom(st.goldPerGram,
              Find(entries, LAMBDA e : lc(e.key) = "gram"
                                       \/ Includes(lc(e.key), "gram_in"))),
   silverPerGram |->
     FillFrom(st.silverPerGram,
              Find(entries, LAMBDA e : lc(e.key) = "silver"
                                       \/ Includes(lc(e.key), "silver_gram")))]

\* 4) keys containing 'xau' (gold) or 'xag' (silver)
Step4(entries, currency, st) ==
  [goldPerGram   |->
     FillFrom(st.goldPerGram,
              Find(entries, LAMBDA e : Includes(lc(e.key), "xau")
                                       \/ Includes(lc(e.path), "xau"))),
   silverPerGram |->
     FillFrom(st.silverPerGram,
              Find(entries, LAMBDA e : Includes(lc(e.key), "xag")
                                       \/ Includes(lc(e.path), "xag")))]

\* An insertion that keeps the order the entries came in.
InsertLast(sorted, x) == Append(sorted, x)

\* x inserted into the descending run sorted: after every element that the
\* comparator (a, b) => b.num - a.num does not place behind x.
RECURSIVE InsertDesc(_, _)
InsertDesc(sorted, x) ==
  IF sorted = <<>> THEN <<x>>
  ELSE IF CmpNum(x.num.v, Head(sorted).num.v) > 0 THEN <<x>> \o sorted
  ELSE <<Head(sorted)>> \o InsertDesc(Tail(sorted), x)

\* .map(e => ({...e, num: parseNumber(e.value)})).sort((a,b) => b.num - a.num):
\* the stable sort, descending by num.
RECURSIVE SortDescFrom(_, _)
SortDescFrom(sorted, rest) ==
  IF rest = <<>> THEN sorted
  ELSE SortDescFrom(InsertDesc(sorted, Head(rest)), Tail(rest))

MapNumSortDesc(entries) ==
  SortDescFrom(<<>>, [i \in 1..Len(entries) |->
                        [path  |-> entries[i].path,
                         key   |-> entries[i].key,
                         value |-> entries[i].value,
                         num   |-> parseNumber(entries[i].value)]])

\* if (cands.length >= 1 && gold == null) gold = cands[0].num;
\* if (cands.length >= 2 && silver == null) silver = cands[1].num;
TopTwo(cands, st) ==
  [goldPerGram   |-> IF Len(cands) >= 1 /\ IsNullish(st.goldPerGram)
                     THEN cands[1].num ELSE st.goldPerGram,
   silverPerGram |-> IF Len(cands) >= 2 /\ IsNullish(st.silverPerGram)
                     THEN cands[2].num ELSE st.silverPerGram]

\* 5) fallback: numeric 'gram' candidates, top two
Step5(entries, currency, st) ==
  IF IsNullish(st.goldPerGram) \/ IsNullish(st.silverPerGram)
  THEN TopTwo(MapNumSortDesc(Filter(entries, LAMBDA e :
                /\ Includes(lc(e.key), "gram")
                /\ ~IsNullish(parseNumber(e.value))
                /\ (currency = "usd" \/ ~Includes(lc(e.key), "usd")))), st)
  ELSE st

\* 6) the two largest numeric values (excluding timestamps)
Step6(entries, currency, st) ==
  IF IsNullish(st.goldPerGram) \/ IsNullish(st.silverPerGram)
  THEN TopTwo(MapNumSortDesc(Filter(entries, LAMBDA e :
                /\ ~IsNullish(parseNumber(e.value))
                /\ ~Includes(lc(e.key), "gmt")
                /\ ~Includes(lc(e.key), "updated")
                /\ ~Includes(lc(e.key), "time")
                /\ (currency = "usd" \/ ~Includes(lc(e.key), "usd")))), st)
  ELSE st

\* let goldPerGram = null; let silverPerGram = null;
Unresolved == [goldPerGram |-> Null, silverPerGram |-> Null]

\* Steps 1-6 in order.
Heuristics(entries, currency) ==
  Step6(entries, currency,
    Step5(entries, currency,
      Step4(entries, currency,
        Step3(entries, currency,
          Step2(entries, currency,
            Step1(entries, currency, Unresolved))))))

\* gramToOunce search: null, or the number of the first matching entry.
GramToOunceSearch(entries) ==
  AssignFrom(Null, Find(entries, LAMBDA e :
                          Includes(lc(e.key), "gram_to_ounce")
                          \/ Includes(lc(e.key), "gram_to_ounce_formula")))

\* (entry && parseNumber(entry.value) != null && gramToOunce)
\*    ? parseNumber(entry.value) * gramToOunce : null
FromOunce(entry, gramToOunce) ==
  IF entry # <<>>
  THEN With(parseNumber(entry[1].value), LAMBDA n :
         IF ~IsNullish(n) /\ Truthy(gramToOunce)
         THEN NumQ(Mul(n.v, gramToOunce.v)) ELSE Null)
  ELSE Null

\* findKey(sOunceKey) || entries.find(key includes 'silver_ounce' and currency)
sOunce(entries, currency) ==
  With(findKey(entries, "silver_ounce_in_" \o currency), LAMBDA direct :
    IF direct # <<>> THEN direct
    ELSE Find(entries, LAMBDA e : Includes(lc(e.key), "silver_ounce")
                                  /\ Includes(lc(e.key), currency)))

\* findKey(gOunceKey) || entries.find(key includes 'ounce' and currency)
gOunce(entries, currency) ==
  With(findKey(entries, "ounce_in_" \o currency), LAMBDA direct :
    IF direct # <<>> THEN direct
    ELSE Find(entries, LAMBDA e : Includes(lc(e.key), "ounce")
                                  /\ Includes(lc(e.key), currency)))

\* Both take the gramToOunce of the search above: the default is not yet applied.
silverFromOunce(entries, currency, gramToOunce) ==
  FromOunce(sOunce(entries, currency), gramToOunce)

goldFromOunce(entries, currency, gramToOunce) ==
  FromOunce(gOunce(entries, currency), gramToOunce)

\* A per-ounce rule that overrides for every currency.
OunceAlwaysPreferred(currency, st, gFromOunce, sFromOunce) ==
  [goldPerGram   |-> IF ~IsNullish(gFromOunce) THEN gFromOunce ELSE st.goldPerGram,
   silverPerGram |-> IF ~IsNullish(sFromOunce) THEN sFromOunce ELSE st.silverPerGram]

\* The per-ounce values applied to the result st of steps 1-6: they replace it for
\* a currency other than usd, and only fill what is missing for usd.
PreferOunce(currency, st, gFromOunce, sFromOunce) ==
  IF currency # "usd"
  THEN [goldPerGram   |-> IF ~IsNullish(gFromOunce) THEN gFromOunce
                          ELSE st.goldPerGram,
        silverPerGram |-> IF ~IsNullish(sFromOunce) THEN sFromOunce
                          ELSE st.silverPerGram]
  ELSE [goldPerGram   |-> IF IsNullish(st.goldPerGram) /\ ~IsNullish(gFromOunce)
                          THEN gFromOunce ELSE st.goldPerGram,
        silverPerGram |-> IF IsNullish(st.silverPerGram) /\ ~IsNullish(sFromOunce)
                          THEN sFromOunce ELSE st.silverPerGram]

\* The troy-ounce-per-gram default, 0.0321507.
DefaultGramToOunce == NumQ(<<321507, 10000000>>)

\* if (gramToOunce == null)
\*   gramToOunce = data.gram_to_ounce_formula ?? data.gram_to_ounce ?? 0.0321507;
FinalGramToOunce(data, gramToOunce) ==
  IF IsNullish(gramToOunce)
  THEN Coalesce(GetProp(data, "gram_to_ounce_formula"),
                Coalesce(GetProp(data, "gram_to_ounce"), DefaultGramToOunce))
  ELSE gramToOunce

\* The handler's locals at the extraction guard.
Locals(st, gramToOunce) ==
  [goldPerGram   |-> st.goldPerGram,
   silverPerGram |-> st.silverPerGram,
   gramToOunce   |-> gramToOunce]

\* The handler after steps 1-6, with the gramToOunce found by the search.
ExtractWith(data, entries, currency, gramToOunce) ==
  Locals(PreferOunce(currency, Heuristics(entries, currency),
                     goldFromOunce(entries, currency, gramToOunce),
                     silverFromOunce(entries, currency, gramToOunce)),
         FinalGramToOunce(data, gramToOunce))

\* Everything the handler computes from the entries, up to the extraction guard.
Extract(data, entries, currency) ==
  ExtractWith(data, entries, currency, GramToOunceSearch(entries))

(***************************************************************************)
(* The GET /api/rates handler                                              *)
(***************************************************************************)
\* const currency = (req.query.currency || "usd").toLowerCase(), for an absent
\* or a string query parameter.
ReadCurrency(q) == ToLowerCase(OrElse(q, Str("usd")).v)

\* A parameter given more than once is an array, which has no toLowerCase: the
\* call throws a TypeError, outside the handler's try block.
CurrencyThrows(q) == OrElse(q, Str("usd")).t # "str"

\* if (!GOLDPRICEZ_API_KEY)
KeyMissing(key) == ~Truthy(key)

Response(status, body) == [status |-> status, body |-> body]

\* What the router's own error handler sends for what a handler throws.
RouterErrorResponse == Response(500, Str("Internal Server Error"))

ConfigErrorResponse ==
  Response(500, Obj(<< <<"error", Str("Server not configured with GOLDPRICEZ_API_KEY")>>,
                       <<"hint", Str("Set GOLDPRICEZ_API_KEY in the server .env file")>> >>))

NetworkErrorResponse ==
  Response(502, Obj(<< <<"error", Str("Network error fetching GoldPriceZ")>> >>))

UpstreamStatusResponse(status, text) ==
  Response(502, Obj(<< <<"error", Str("Failed to fetch data from GoldPriceZ")>>,
                       <<"status", Num(status)>>,
                       <<"details", Str(text)>> >>))

InvalidJsonResponse ==
  Response(502, Obj(<< <<"error", Str("Invalid JSON from GoldPriceZ")>> >>))

InternalErrorResponse ==
  Response(500, Obj(<< <<"error", Str("Internal server error")>> >>))

\* response.ok
StatusOk(status) == status >= 200 /\ status <= 299

\* if (data.data && typeof data.data === "object") data = data.data;
Unwrap(data) ==
  With(GetProp(data, "data"), LAMBDA inner :
    IF Truthy(inner) /\ IsObjectLike(inner) THEN inner ELSE data)

\* Object.assign(acc, item): the own keys of item, in their order.
RECURSIVE ObjectAssign(_, _, _)
ObjectAssign(acc, item, keys) ==
  IF keys = <<>> THEN acc
  ELSE ObjectAssign(SetProp(acc, Head(keys), GetProp(item, Head(keys))),
                    item, Tail(keys))

\* data.reduce((acc, item, idx) => ..., {}) from element idx (0-based) on.
RECURSIVE MergeFrom(_, _, _)
MergeFrom(acc, items, idx) ==
  IF idx >= Len(items) THEN acc
  ELSE MergeFrom(IF Truthy(items[idx + 1]) /\ IsObjectLike(items[idx + 1])
                 THEN ObjectAssign(acc, items[idx + 1], ObjectKeys(items[idx + 1]))
                 ELSE SetProp(acc, IntToStr(idx), items[idx + 1]),
                 items, idx + 1)

\* if (Array.isArray(data)) data = merged
MergeArray(data) ==
  IF data.t = "arr" THEN Obj(MergeFrom(<<>>, data.v, 0)) ELSE data

\* JSON.stringify(data[0]).slice(0, 500) throws a TypeError when data is the
\* empty array: JSON.stringify(undefined) is undefined.
SampleLogThrows(data) == data.t = "arr" /\ Len(data.v) = 0

\* The bound of Object.keys(data).slice(0, 50).
KeysSampleMax == 50

KeysSample(data) ==
  With(ObjectKeys(data), LAMBDA keys :
    Arr([i \in 1..(IF Len(keys) < KeysSampleMax THEN Len(keys) ELSE KeysSampleMax)
           |-> Str(keys[i])]))

ExtractionErrorResponse(data) ==
  Response(502, Obj(<< <<"error", Str("Unexpected response format from GoldPriceZ")>>,
                       <<"keys", KeysSample(data)>> >>))

\* perGram, perGram / gramToOunce, perGram * 1000
UnitPrices(perGram, gramToOunce) ==
  Obj(<< <<"perGram", perGram>>,
         <<"perOunce", NumQ(Div(perGram.v, ToNumber(gramToOunce)))>>,
         <<"perKg", NumQ(Mul(perGram.v, <<1000, 1>>))>> >>)

\* updatedFx || updatedUsd
Updated(data, currency) ==
  OrElse(OrElse(GetProp(data, "gmt_" \o currency \o "_updated"), Null),
         OrElse(GetProp(data, "gmt_ounce_price_usd_updated"), Null))

RatesResponse(data, currency, ex) ==
  Response(200, Obj(<< <<"currency", Str(ToUpperCase(currency))>>,
                       <<"gold", UnitPrices(ex.goldPerGram, ex.gramToOunce)>>,
                       <<"silver", UnitPrices(ex.silverPerGram, ex.gramToOunce)>>,
                       <<"meta", Obj(<< <<"source", Str("GoldPriceZ.com")>>,
                                        <<"updated", Updated(data, currency)>> >>)>> >>))

\* if (goldPerGram == null || silverPerGram == null) 502 else 200
GuardedResponse(data, currency, ex) ==
  IF IsNullish(ex.goldPerGram) \/ IsNullish(ex.silverPerGram)
  THEN ExtractionErrorResponse(data)
  ELSE RatesResponse(data, currency, ex)

\* let data = await response.json().catch(() => null)
BodyJson(text) ==
  With(JSONParse(text), LAMBDA r : IF r.ok THEN r.val ELSE Null)

\* What the handler leaves behind: the response it sends, and the payload and the
\* locals of the extraction where it got that far.
NoLocals == Locals([goldPerGram |-> Undefined, silverPerGram |-> Undefined], Undefined)

Outcome(response, flattened, data, ex) ==
  [response |-> response, flattened |-> flattened, data |-> data, locals |-> ex]

\* The handler from the extraction guard on.
HandleExtracted(data, currency, ex) ==
  Outcome(GuardedResponse(data, currency, ex), TRUE, data, ex)

\* The handler from the return of flatten on; what flatten throws reaches the
\* handler's catch.
HandleFlattened(data, currency, flat) ==
  IF flat.threw THEN Outcome(InternalErrorResponse, TRUE, data, NoLocals)
  ELSE HandleExtracted(data, currency, Extract(data, flat.out, currency))

\* The handler from the array merge on.
HandleMerged(data, currency) == HandleFlattened(data, currency, flatten(data))

\* The handler from the unwrapping of data.data on.
HandleUnwrapped(data, currency) ==
  IF SampleLogThrows(data)
  THEN Outcome(InternalErrorResponse, FALSE, Undefined, NoLocals)
  ELSE HandleMerged(MergeArray(data), currency)

\* The handler from the settled response.json() on.
HandleData(data, currency) ==
  IF ~Truthy(data) THEN Outcome(InvalidJsonResponse, FALSE, Undefined, NoLocals)
  ELSE HandleUnwrapped(Unwrap(data), currency)

HandleBody(text, currency) == HandleData(BodyJson(text), currency)

(***************************************************************************)
(* The inputs of the model                                                 *)
(***************************************************************************)
\* The number of requests the server receives.
NumRequests == 1

Reqs == 1..NumRequests

\* process.env.GOLDPRICEZ_API_KEY: unset, empty, or a key.
ApiKeys == {Undefined, Str(""), Str("secret")}

\* req.query.currency: absent, a string, or the array of a repeated parameter.
Queries ==
  {Undefined, Str(""), Str("usd"), Str("inr"), Str("INR"),
   Arr(<<Str("usd"), Str("inr")>>)}

\* The upstream bodies of a success status.
Bodies ==
  {
    \* scenario A: direct per-gram keys
    "{\"gold_gram_in_usd\":100,\"silver_gram_in_usd\":1.2}",
    \* scenario B: an array of fragments
    "[{\"gold_gram\":90},{\"silver_gram\":1.1}]",
    \* scenario C: two gram keys with no metal name
    "{\"a_gram\":85,\"b_gram\":1.05}",
    \* scenario D: nothing numeric
    "{\"status\":\"ok\",\"note\":\"none\"}",
    \* gold from step 1 with a gram_in_usd that differs, silver from step 3
    "{\"gold_gram\":90,\"gram_in_usd\":50,\"silver\":1.1}",
    \* scenario E: a per-ounce field and no conversion factor
    "{\"silver_ounce_in_inr\":93,\"x\":5}",
    \* per-ounce fields with the factor in the payload
    "{\"gram_to_ounce_formula\":0.03,\"silver_ounce_in_inr\":3000,\"ounce_in_inr\":200000,\"gram_in_inr\":\"6100\",\"silver_gram_in_inr\":\"95\"}",
    \* the provider's shape
    "{\"ounce_price_usd\":\"2000\",\"gmt_ounce_price_usd_updated\":\"01-01-2024 10:00 am\",\"gram_to_ounce_formula\":\"0.0321\",\"usd_to_inr\":\"83\",\"gmt_inr_updated\":\"01-01-2024 09:00 am\",\"ounce_in_inr\":\"166000\",\"gram_in_usd\":\"64.2\",\"gram_in_inr\":\"5328.6\"}",
    \* the provider's shape, sent as a JSON string
    "\"{\\\"ounce_price_usd\\\":\\\"2000\\\",\\\"gmt_ounce_price_usd_updated\\\":\\\"01-01-2024 10:00 am\\\",\\\"gram_to_ounce_formula\\\":\\\"0.0321\\\",\\\"usd_to_inr\\\":\\\"83\\\",\\\"gmt_inr_updated\\\":\\\"01-01-2024 09:00 am\\\",\\\"ounce_in_inr\\\":\\\"166000\\\",\\\"gram_in_usd\\\":\\\"64.2\\\",\\\"gram_in_inr\\\":\\\"5328.6\\\"}\"",
    \* a price that is the string Infinity
    "{\"gold_gram\":\"Infinity\",\"silver_gram\":1.2}",
    \* a price literal beyond the range of a double
    "{\"gold_gram\":90,\"silver_gram\":-1e999}",
    \* a conversion factor of zero
    "{\"gold_gram\":90,\"silver_gram\":1.1,\"gram_to_ounce\":0}",
    \* a conversion formula that is prose
    "{\"gold_gram\":90,\"silver_gram\":1.1,\"gram_to_ounce_formula\":\"1 g = 0.03 oz\"}",
    \* a nested non-numeric factor and a top-level numeric string
    "{\"gold_gram\":90,\"silver_gram\":1.1,\"info\":{\"gram_to_ounce\":\"n/a\"},\"gram_to_ounce\":\" 0.5 \"}",
    \* a gold gram key without a number before one with a number
    "{\"gold_gram\":\"n/a\",\"gold_gram_24k\":90,\"gram_in_usd\":50,\"silver_gram\":1.1}",
    \* keys in upper case
    "{\"Gold_Gram\":70,\"SILVER_GRAM\":\"0.9\"}",
    \* the empty array
    "[]",
    \* an empty array under data
    "{\"data\":[]}",
    \* a payload under data
    "{\"data\":{\"gold_gram\":90,\"silver_gram\":1.1}}",
    \* a number
    "5",
    \* a short string
    "\"abc\"",
    \* a string of more than fifty characters
    "\"no rates are available at the moment, please try again later\"",
    \* true
    "true",
    \* null
    "null",
    \* zero
    "0",
    \* the empty string
    "\"\"",
    \* truncated JSON
    "{\"gold_gram\":",
    \* not JSON
    "<html>",
    \* an empty body
    "",
    \* JSON inside a string inside a string
    "{\"rates\":\"{\\\"gold_gram\\\":\\\"[\\\\\\\"91\\\\\\\"]\\\",\\\"silver_gram\\\":1}\"}",
    \* strings that start like JSON and are not
    "{\"gold_gram\":90,\"silver_gram\":1.1,\"note\":\"{not json\",\"list\":\" [1,2\"}",
    \* empty containers
    "{\"gold_gram\":90,\"silver_gram\":1.1,\"extra\":{},\"list\":[],\"s\":\" [] \"}",
    \* usd: per-ounce values beside resolved per-gram values
    "{\"gram_to_ounce\":0.5,\"ounce_in_usd\":200,\"silver_ounce_in_usd\":30,\"gold_gram\":110,\"silver_gram\":2}",
    \* usd: a per-ounce silver value that steps 1-6 cannot see
    "{\"gram_to_ounce\":0.5,\"silver_ounce_usd_time\":30,\"note\":\"x\"}",
    \* silver fields only, with a factor
    "{\"silver_gram_in_inr\":95,\"silver_ounce_in_inr\":3000,\"gram_to_ounce\":0.03}",
    \* update markers
    "{\"gold_gram\":90,\"silver_gram\":1.1,\"gmt_inr_updated\":\"t1\",\"gmt_ounce_price_usd_updated\":\"t0\"}",
    \* an array of fragments and scalars
    "[5,{\"gold_gram\":90},\"x\",{\"silver_gram\":1.1},null]",
    \* keys that hold a dot
    "{\"gold.gram\":7,\"silver.gram\":1}",
    \* numeric strings with white space and a sign
    "{\"gold_gram\":\" 42 \",\"silver_gram\":\"-1\"}",
    \* silver only
    "{\"silver_gram\":1.1}",
    \* gold only
    "{\"gold_gram\":90}",
    \* gram keys in ascending order, with a tie
    "{\"a_gram\":1.05,\"b_gram\":85,\"c_gram\":\"85\"}",
    \* a gram key that mentions usd
    "{\"a_gram_usd\":200,\"b_gram\":85,\"c_gram\":1.05}",
    \* gram keys with a non-finite value
    "{\"a_gram\":\"-Infinity\",\"b_gram\":3}",
    \* ticker keys
    "{\"xau\":{\"price\":61},\"XAG\":0.8,\"time\":1700000000}",
    \* bare gram and silver keys
    "{\"gram\":62,\"silver\":0.7}",
    \* numbers that are not prices
    "{\"timestamp\":1700000000,\"count\":3,\"page\":1}",
    \* a repeated key and index keys
    "{\"b\":1,\"2\":20,\"b\":3,\"1\":10}",
    \* booleans and null
    "{\"gold_gram\":true,\"silver_gram\":null,\"ok\":false}",
    \* arrays nested beyond the stack
    "{\"gold_gram\":90,\"silver_gram\":1.1,\"deep\":[[[[[[[[[[7]]]]]]]]]]}",
    \* arrays nested beyond the stack, inside a string
    "{\"gold_gram\":90,\"silver_gram\":1.1,\"deep\":\"[3,[[[[[[[[[[7]]]]]]]]]]]\"}"
  }

\* The upstream statuses other than success, and the bodies sent with them.
ErrorStatuses == {403, 500}
ErrorBodies == {"", "Forbidden", "{\"error\":\"Forbidden\"}"}

\* The arguments parseNumber is applied to: strings made of a sign or a blank, a
\* body and a tail, numbers, and the values of the other kinds.
ArgPrefixes == {"", " ", "-", "+"}
ArgBodies ==
  {"", "42", "123.45", "0", ".5", "5.", "1e3", "2E-2", "1e999", "Infinity",
   "infinity", "NaN", "abc", "1,5", "0x1F", "."}
ArgTails == {"", " ", "x"}
ArgStrings == {p \o b \o s : p \in ArgPrefixes, b \in ArgBodies, s \in ArgTails}
ArgNumbers == {<<42, 1>>, <<0, 1>>, <<-7, 2>>, <<12345, 100>>, PosInf, NegInf, NaN}
ArgOthers ==
  <<Undefined, Null, Bool(TRUE), Bool(FALSE), Obj(<<>>), Arr(<<>>),
    Arr(<<Num(5)>>), Obj(<< <<"value", Num(5)>> >>)>>

(***************************************************************************)
(* The state                                                               *)
(***************************************************************************)
VARIABLES
  apiKey,       \* GOLDPRICEZ_API_KEY, read once at startup
  pc,           \* pc[r]: where request r's handler is
  query,        \* query[r]: req.query.currency of request r
  upstream,     \* upstream[r]: the upstream response of request r's fetch
  calls,        \* calls[r]: the fetch calls issued for request r
  extractions,  \* extractions[r]: the times the handler ran flatten for r
  payload,      \* payload[r]: data, as the extractor of request r saw it
  locals,       \* locals[r]: goldPerGram, silverPerGram and gramToOunce of r
  sent,         \* sent[r]: the responses sent for request r, in order
  obj,          \* flatten's argument
  stack,        \* the calls of helper still to run, and the catch blocks
  out,          \* flatten's out
  thrown,       \* flatten threw
  call,         \* a call of parseNumber: its argument and what it returned
  app,          \* the client's state: currency, rates, loading and error
  mounted,      \* the client's component is mounted
  timers,       \* the client's active intervals
  requests      \* the client's calls of fetchRates, in the order they started

serverVars == <<apiKey, pc, query, upstream, calls, extractions, payload, locals, sent>>
flattenVars == <<obj, stack, out, thrown>>
clientVars == <<app, mounted, timers, requests>>
vars == <<serverVars, flattenVars, call, clientVars>>

NoUpstream == [status |-> 0, body |-> ""]

\* No request yet.
ServerInit ==
  /\ pc = [r \in Reqs |-> "idle"]
  /\ query = [r \in Reqs |-> Undefined]
  /\ upstream = [r \in Reqs |-> NoUpstream]
  /\ calls = [r \in Reqs |-> 0]
  /\ extractions = [r \in Reqs |-> 0]
  /\ payload = [r \in Reqs |-> Undefined]
  /\ locals = [r \in Reqs |-> NoLocals]
  /\ sent = [r \in Reqs |-> <<>>]

\* flatten is not running.
FlattenIdle ==
  /\ obj = Undefined
  /\ stack = <<>>
  /\ out = <<>>
  /\ thrown = FALSE

\* parseNumber is not running.
NoCall == [arg |-> Undefined, returned |-> FALSE, result |-> Undefined]

\* useState("INR"), useState(null), useState(false), useState("")
NoRates == [currency |-> "", of |-> 0]
InitialState == [currency |-> "INR", rates |-> NoRates, loading |-> FALSE, error |-> ""]

\* The client before its component mounts.
ClientIdle ==
  /\ app = InitialState
  /\ mounted = FALSE
  /\ timers = {}
  /\ requests = <<>>

Init ==
  /\ apiKey \in ApiKeys
  /\ ServerInit
  /\ FlattenIdle
  /\ call = NoCall
  /\ ClientIdle

\* The handler from its start to its first await: the key check, then fetch.
Receive(r, q) ==
  /\ pc[r] = "idle"
  /\ ~CurrencyThrows(q)
  /\ query' = [query EXCEPT ![r] = q]
  /\ IF KeyMissing(apiKey)
     THEN /\ sent' = [sent EXCEPT ![r] = Append(@, ConfigErrorResponse)]
          /\ pc' = [pc EXCEPT ![r] = "done"]
          /\ calls' = calls
     ELSE /\ calls' = [calls EXCEPT ![r] = @ + 1]
          /\ pc' = [pc EXCEPT ![r] = "fetch"]
          /\ sent' = sent
  /\ UNCHANGED <<apiKey, upstream, extractions, payload, locals, flattenVars, call, clientVars>>

\* The requests the process was still serving lose their handlers when the
\* process ends.
ProcessExits(r) ==
  [s \in DOMAIN pc |->
     IF s = r THEN "thrown"
     ELSE IF pc[s] \in {"fetch", "text", "json"} THEN "aborted" ELSE pc[s]]

\* The handler throws where it reads the currency: its promise rejects.  A
\* router that handles the rejection sends its own error response; one that does
\* not sends nothing, and the rejection, which nothing handles, ends the process
\* (Node >= 15) with every handler that was awaiting.
ReceiveThrows(r, q, handled) ==
  /\ pc[r] = "idle"
  /\ CurrencyThrows(q)
  /\ query' = [query EXCEPT ![r] = q]
  /\ pc' = IF handled THEN [pc EXCEPT ![r] = "thrown"] ELSE ProcessExits(r)
  /\ sent' = [sent EXCEPT ![r] = IF handled THEN Append(@, RouterErrorResponse) ELSE @]
  /\ UNCHANGED <<apiKey, upstream, calls, extractions, payload, locals, flattenVars, call, clientVars>>

\* await fetch(url) rejects.
FetchRejects(r) ==
  /\ pc[r] = "fetch"
  /\ sent' = [sent EXCEPT ![r] = Append(@, NetworkErrorResponse)]
  /\ pc' = [pc EXCEPT ![r] = "done"]
  /\ UNCHANGED <<apiKey, query, upstream, calls, extractions, payload, locals,
                 flattenVars, call, clientVars>>

\* await fetch(url) resolves: the handler goes on to read the body, as text for
\* a status that is not ok and as JSON otherwise.
FetchResolves(r, status, body) ==
  /\ pc[r] = "fetch"
  /\ upstream' = [upstream EXCEPT ![r] = [status |-> status, body |-> body]]
  /\ pc' = [pc EXCEPT ![r] = IF StatusOk(status) THEN "json" ELSE "text"]
  /\ UNCHANGED <<apiKey, query, calls, extractions, payload, locals, sent,
                 flattenVars, call, clientVars>>

\* await response.text().catch(() => "<no body>") settles.
TextSettles(r, readable) ==
  /\ pc[r] = "text"
  /\ sent' = [sent EXCEPT ![r] =
                Append(@, UpstreamStatusResponse(upstream[r].status,
                            IF readable THEN upstream[r].body ELSE "<no body>"))]
  /\ pc' = [pc EXCEPT ![r] = "done"]
  /\ UNCHANGED <<apiKey, query, upstream, calls, extractions, payload, locals,
                 flattenVars, call, clientVars>>

\* The handler's effects for the outcome o of its last stretch.
Finish(r, o) ==
  /\ sent' = [sent EXCEPT ![r] = Append(@, o.response)]
  /\ extractions' = [extractions EXCEPT ![r] = IF o.flattened THEN @ + 1 ELSE @]
  /\ payload' = [payload EXCEPT ![r] = o.data]
  /\ locals' = [locals EXCEPT ![r] = o.locals]
  /\ pc' = [pc EXCEPT ![r] = "done"]

\* await response.json().catch(() => null) settles: the rest of the handler.
JsonSettles(r) ==
  /\ pc[r] = "json"
  /\ Finish(r, HandleBody(upstream[r].body, ReadCurrency(query[r])))
  /\ UNCHANGED <<apiKey, query, upstream, calls, flattenVars, call, clientVars>>

Next ==
  \E r \in Reqs :
    \/ \E q \in Queries : Receive(r, q)
    \/ \E q \in Queries, handled \in BOOLEAN : ReceiveThrows(r, q, handled)
    \/ FetchRejects(r)
    \/ \E b \in Bodies : FetchResolves(r, 200, b)
    \/ \E s \in ErrorStatuses, b \in ErrorBodies : FetchResolves(r, s, b)
    \/ \E readable \in BOOLEAN : TextSettles(r, readable)
    \/ JsonSettles(r)

Spec == Init /\ [][Next]_vars

(***************************************************************************)
(* flatten, one call of helper at a time.  The stack holds the calls of    *)
(* helper still to run, the running one first, and, under the calls made   *)
(* inside a try block, that block's catch.                                 *)
(***************************************************************************)
PendingCall(val, path, depth) ==
  [catch |-> FALSE, val |-> val, path |-> path, depth |-> depth]

PendingCatch(val, path, depth) ==
  [catch |-> TRUE, val |-> val, path |-> path, depth |-> depth]

\* The calls a forEach of helper makes, each as call number depth.
PendingCalls(cs, depth) ==
  [i \in 1..Len(cs) |-> PendingCall(cs[i][1], cs[i][2], depth)]

\* helper(obj, prefix), with prefix = '', is the one pending call.
FlattenStart(data) ==
  /\ obj = data
  /\ stack = <<PendingCall(data, "", 1)>>
  /\ out = <<>>
  /\ thrown = FALSE

\* flatten(data), for the data the handler computes from an upstream body.
FlattenInit ==
  /\ apiKey = Str("secret")
  /\ ServerInit
  /\ call = NoCall
  /\ ClientIdle
  /\ \E b \in Bodies :
       With(HandleBody(b, "usd"), LAMBDA o : o.flattened /\ FlattenStart(o.data))

\* The next thing to do is to run a call of helper that the stack has room for.
Runs(top) == ~top.catch /\ top.depth <= StackLimit

\* helper(val, path) with a string that JSON.parse accepts calls helper(parsed,
\* path) inside its try block.
HelperDecodes ==
  /\ stack # <<>>
  /\ Runs(Head(stack))
  /\ TryDecode(Head(stack).val).ok
  /\ stack' = <<PendingCall(TryDecode(Head(stack).val).val, Head(stack).path,
                            Head(stack).depth + 1),
                PendingCatch(Head(stack).val, Head(stack).path, Head(stack).depth)>>
              \o Tail(stack)
  /\ UNCHANGED <<serverVars, obj, out, thrown, call, clientVars>>

\* helper(parsed, path) returned inside the try block: helper returns.
HelperReturns ==
  /\ stack # <<>>
  /\ Head(stack).catch
  /\ stack' = Tail(stack)
  /\ UNCHANGED <<serverVars, obj, out, thrown, call, clientVars>>

\* helper(val, path) with an array or an object calls helper for each element
\* or key, in order.
HelperDescends ==
  /\ stack # <<>>
  /\ Runs(Head(stack))
  /\ ~TryDecode(Head(stack).val).ok
  /\ IsObjectLike(Head(stack).val)
  /\ stack' = PendingCalls(Children(Head(stack).val, Head(stack).path),
                           Head(stack).depth + 1) \o Tail(stack)
  /\ UNCHANGED <<serverVars, obj, out, thrown, call, clientVars>>

\* helper(val, path) with anything else pushes one entry.
HelperPushes ==
  /\ stack # <<>>
  /\ Runs(Head(stack))
  /\ ~TryDecode(Head(stack).val).ok
  /\ ~IsObjectLike(Head(stack).val)
  /\ out' = Append(out, LeafEntry(Head(stack).val, Head(stack).path))
  /\ stack' = Tail(stack)
  /\ UNCHANGED <<serverVars, obj, thrown, call, clientVars>>

\* The places of the catch blocks on the stack.
Catches == {i \in 1..Len(stack) : stack[i].catch}

\* The call has no room on the stack and throws: the calls up to the nearest catch
\* are abandoned, and the helper of that catch pushes its string; with no catch,
\* flatten throws.
HelperThrows ==
  /\ stack # <<>>
  /\ ~Head(stack).catch
  /\ Head(stack).depth > StackLimit
  /\ IF Catches = {}
     THEN /\ stack' = <<>>
          /\ thrown' = TRUE
          /\ out' = out
     ELSE /\ stack' = SubSeq(stack, SetMin(Catches) + 1, Len(stack))
          /\ out' = Append(out, LeafEntry(stack[SetMin(Catches)].val,
                                          stack[SetMin(Catches)].path))
          /\ thrown' = thrown
  /\ UNCHANGED <<serverVars, obj, call, clientVars>>

FlattenNext ==
  \/ HelperDecodes
  \/ HelperReturns
  \/ HelperDescends
  \/ HelperPushes
  \/ HelperThrows

FlattenSpec == FlattenInit /\ [][FlattenNext]_vars

(***************************************************************************)
(* parseNumber, applied to one argument                                    *)
(***************************************************************************)
CallWith(v) == call = [arg |-> v, returned |-> FALSE, result |-> Undefined]

ParseInit ==
  /\ apiKey = Str("secret")
  /\ ServerInit
  /\ FlattenIdle
  /\ ClientIdle
  /\ \/ \E s \in ArgStrings : CallWith(Str(s))
     \/ \E q \in ArgNumbers : CallWith(NumQ(q))
     \/ \E i \in 1..Len(ArgOthers) : CallWith(ArgOthers[i])

ParseNumberReturns ==
  /\ ~call.returned
  /\ call' = [call EXCEPT !.returned = TRUE, !.result = parseNumber(call.arg)]
  /\ UNCHANGED <<serverVars, flattenVars, clientVars>>

ParseNext == ParseNumberReturns

ParseSpec == ParseInit /\ [][ParseNext]_vars

(***************************************************************************)
(* Requests served at once.  The handler gives up control only where it    *)
(* awaits: fetch, response.text() and response.json(); between two awaits  *)
(* it runs alone, so a step of one request is one action of the handler.   *)
(***************************************************************************)
\* The requests the server has at once.
NumConcurrent == 2

Concurrent == 1..NumConcurrent

ConcurrentQueries == {Str("usd"), Str("INR"), Arr(<<Str("usd"), Str("inr")>>)}

ConcurrentBodies ==
  {"{\"gold_gram_in_usd\":100,\"silver_gram_in_usd\":1.2,\"gram_in_inr\":8000,\"silver_gram_in_inr\":95}",
   "{\"status\":\"ok\",\"note\":\"none\"}",
   "not json"}

ConcurrentInit ==
  /\ apiKey \in ApiKeys
  /\ pc = [r \in Concurrent |-> "idle"]
  /\ query = [r \in Concurrent |-> Undefined]
  /\ upstream = [r \in Concurrent |-> NoUpstream]
  /\ calls = [r \in Concurrent |-> 0]
  /\ extractions = [r \in Concurrent |-> 0]
  /\ payload = [r \in Concurrent |-> Undefined]
  /\ locals = [r \in Concurrent |-> NoLocals]
  /\ sent = [r \in Concurrent |-> <<>>]
  /\ FlattenIdle
  /\ call = NoCall
  /\ ClientIdle

ConcurrentNext ==
  \E r \in Concurrent :
    \/ \E q \in ConcurrentQueries : Receive(r, q)
    \/ \E q \in ConcurrentQueries, handled \in BOOLEAN : ReceiveThrows(r, q, handled)
    \/ FetchRejects(r)
    \/ \E b \in ConcurrentBodies : FetchResolves(r, 200, b)
    \/ FetchResolves(r, 403, "Forbidden")
    \/ \E readable \in BOOLEAN : TextSettles(r, readable)
    \/ JsonSettles(r)

ConcurrentSpec == ConcurrentInit /\ [][ConcurrentNext]_vars

(***************************************************************************)
(* The client: the App component.  A render, its effects and an event       *)
(* handler each run to their end; fetchRates gives up control where it      *)
(* awaits fetch and where it awaits the body.  The unit of display is left  *)
(* out: no request depends on it.                                           *)
(***************************************************************************)
\* The calls of fetchRates of one run.
MaxFetches == 3

Currencies == {"INR", "USD"}

\* setLoading(true); setError("")
Loading(st) == [st EXCEPT !.loading = TRUE, !.error = ""]

\* The call fetchRates(curr), up to its await of fetch: the request in flight.
\* by tells what made the call: the effect, the interval, or the button.
Started(curr, by) == [curr |-> curr, by |-> by, stage |-> "fetch", ok |-> FALSE]

\* setInterval(() => fetchRates(currency), 60000): the interval and the currency
\* its callback closes over.
Interval(id, curr) == [id |-> id, curr |-> curr]

\* An effect with no cleanup: the interval stays.
LeaveInterval(ts, keep) == ts \cup keep

\* return () => clearInterval(id), then the interval of the new effect, if any.
clearInterval(ts, keep) == keep

\* The body of GET /api/rates?currency=curr for request i: the server answers
\* with the currency in upper case.
RatesOf(i, curr) == [currency |-> ToUpperCase(ToLowerCase(curr)), of |-> i]

\* A setter called after the component unmounted changes nothing.
SetState(st) == IF mounted THEN st ELSE app

\* The requests still in flight.
InFlight == {i \in 1..Len(requests) : requests[i].stage # "done"}

ClientInit ==
  /\ apiKey = Str("secret")
  /\ ServerInit
  /\ FlattenIdle
  /\ call = NoCall
  /\ ClientIdle

\* The first render commits and its effect runs: fetchRates(currency), setInterval.
Mount ==
  /\ ~mounted
  /\ requests = <<>>
  /\ mounted' = TRUE
  /\ app' = Loading(app)
  /\ requests' = Append(requests, Started(app.currency, "effect"))
  /\ timers' = {Interval(Len(requests) + 1, app.currency)}
  /\ UNCHANGED <<serverVars, flattenVars, call>>

\* A click on a currency button: setCurrency(c), the render, the cleanup of the
\* last effect and the effect for [currency].  A click on the selected currency
\* changes no state and runs no effect.
SetCurrency(c) ==
  /\ mounted
  /\ c # app.currency
  /\ Len(requests) < MaxFetches
  /\ app' = Loading([app EXCEPT !.currency = c])
  /\ requests' = Append(requests, Started(c, "effect"))
  /\ timers' = clearInterval(timers, {Interval(Len(requests) + 1, c)})
  /\ UNCHANGED <<serverVars, flattenVars, call, mounted>>

\* An interval fires: fetchRates(currency) with the currency of its closure.
Tick(t) ==
  /\ t \in timers
  /\ Len(requests) < MaxFetches
  /\ app' = SetState(Loading(app))
  /\ requests' = Append(requests, Started(t.curr, "timer"))
  /\ UNCHANGED <<serverVars, flattenVars, call, mounted, timers>>

\* A click on Refresh now: fetchRates(currency).
Refresh ==
  /\ mounted
  /\ Len(requests) < MaxFetches
  /\ app' = Loading(app)
  /\ requests' = Append(requests, Started(app.currency, "button"))
  /\ UNCHANGED <<serverVars, flattenVars, call, mounted, timers>>

\* await fetch(...) settles for request i: it rejects, and fetchRates ends in
\* catch and finally; or it resolves, with res.ok or not, and fetchRates goes on
\* to read the body.
FetchSettles(i, outcome) ==
  /\ i \in 1..Len(requests)
  /\ requests[i].stage = "fetch"
  /\ IF outcome = "rejects"
     THEN /\ requests' = [requests EXCEPT ![i].stage = "done"]
          /\ app' = SetState([app EXCEPT !.error = "Failed to fetch", !.loading = FALSE])
     ELSE /\ requests' = [requests EXCEPT ![i].stage = "body", ![i].ok = (outcome = "ok")]
          /\ app' = app
  /\ UNCHANGED <<serverVars, flattenVars, call, mounted, timers>>

\* The body of request i settles.  After res.ok, await res.json() gives the data
\* for setRates, or rejects; after a status that is not ok, the message of the
\* error is read from the body and thrown.  finally: setLoading(false).
BodySettles(i, parsed) ==
  /\ i \in 1..Len(requests)
  /\ requests[i].stage = "body"
  /\ requests' = [requests EXCEPT ![i].stage = "done", ![i].ok = @ /\ parsed]
  /\ app' = SetState(IF requests[i].ok /\ parsed
                     THEN [app EXCEPT !.rates = RatesOf(i, requests[i].curr),
                                      !.loading = FALSE]
                     ELSE [app EXCEPT !.error = "Request failed", !.loading = FALSE])
  /\ UNCHANGED <<serverVars, flattenVars, call, mounted, timers>>

\* The component unmounts: the cleanup of the last effect.
Unmount ==
  /\ mounted
  /\ mounted' = FALSE
  /\ timers' = clearInterval(timers, {})
  /\ UNCHANGED <<serverVars, flattenVars, call, app, requests>>

ClientNext ==
  \/ Mount
  \/ \E c \in Currencies : SetCurrency(c)
  \/ \E t \in timers : Tick(t)
  \/ Refresh
  \/ \E i \in 1..MaxFetches, outcome \in {"ok", "status", "rejects"} :
       FetchSettles(i, outcome)
  \/ \E i \in 1..MaxFetches, parsed \in BOOLEAN : BodySettles(i, parsed)
  \/ Unmount

ClientSpec == ClientInit /\ [][ClientNext]_vars

(***************************************************************************)
(* What the claims speak of                                                *)
(***************************************************************************)
\* The currency of request r, as the handler reads it.
Currency(r) == ReadCurrency(query[r])

\* Request r got the response 200.
Sent200(r) == \E i \in 1..Len(sent[r]) : sent[r][i].status = 200

\* Request r ran steps 1-6 and the per-ounce rule: flatten returned.
StepsRan(r) == pc[r] = "done" /\ extractions[r] = 1 /\ ~flatten(payload[r]).threw

\* The entries request r's extractor worked on.
Entries(r) == flatten(payload[r]).out

\* A price that is a finite number.
FinitePrice(x) == x.t = "num" /\ IsFiniteNum(x.v)

\* body.metal.unit of a response.
Price(response, metal, unit) == GetProp(GetProp(response.body, metal), unit)

\* The 502 of the extraction guard: an error and at most KeysSampleMax of the
\* payload's top-level keys, in their order.
IsExtractionError(response, data) ==
  /\ response.status = 502
  /\ ObjectKeys(response.body) = <<"error", "keys">>
  /\ GetProp(response.body, "keys").t = "arr"
  /\ Len(GetProp(response.body, "keys").v) <= KeysSampleMax
  /\ \A i \in 1..Len(GetProp(response.body, "keys").v) :
       GetProp(response.body, "keys").v[i] = Str(ObjectKeys(data)[i])

\* C1: a 200 is sent only with goldPerGram and silverPerGram both resolved to
\* finite numbers, which are the prices it carries; and when steps 1-6 and the
\* per-ounce rule leave either one unresolved, the request ends with the one 502
\* that lists at most 50 of the payload's top-level keys.
OnlyResolvedPricesAreSent ==
  \A r \in Reqs :
    /\ Sent200(r) =>
         /\ FinitePrice(locals[r].goldPerGram)
         /\ FinitePrice(locals[r].silverPerGram)
         /\ Price(sent[r][1], "gold", "perGram") = locals[r].goldPerGram
         /\ Price(sent[r][1], "silver", "perGram") = locals[r].silverPerGram
    /\ (/\ StepsRan(r)
        /\ IsNullish(locals[r].goldPerGram) \/ IsNullish(locals[r].silverPerGram))
         => /\ Len(sent[r]) = 1
            /\ IsExtractionError(sent[r][1], payload[r])

\* Request r has ended: its handler returned or threw.
Ended(r) == pc[r] \in {"done", "thrown"}

\* C2: with no API key configured, a request ends, whatever its currency
\* parameter, with the one response 500 whose body is {error, hint}, and no
\* fetch is issued for it.
NoKeyNoFetch ==
  ~Truthy(apiKey) =>
    \A r \in Reqs :
      /\ calls[r] = 0
      /\ pc[r] = "idle" \/ Ended(r)
      /\ Ended(r) =>
           /\ Len(sent[r]) = 1
           /\ sent[r][1].status = 500
           /\ ObjectKeys(sent[r][1].body) = <<"error", "hint">>

\* The upstream call of request r failed: the fetch rejected, or the status is
\* not a success, or the body is not JSON.
UpstreamFailed(r) ==
  /\ calls[r] = 1
  /\ \/ upstream[r] = NoUpstream
     \/ upstream[r].status \notin 200..299
     \/ ~JSONParse(upstream[r].body).ok

\* C3: with a key configured, a request issues its one fetch when it starts and
\* never another; it sends one response, at its end; extraction runs at most once
\* and only on a body that came with a success status and parsed; and a rejected
\* fetch, a status that is not a success, and a body that is not JSON each end the
\* request with a 502 and with no extraction.
OneFetchThenExtraction ==
  Truthy(apiKey) =>
    \A r \in Reqs :
      /\ calls[r] = IF pc[r] = "idle" THEN 0 ELSE 1
      /\ Len(sent[r]) = IF Ended(r) THEN 1 ELSE 0
      /\ extractions[r] <= 1
      /\ extractions[r] = 1 => Ended(r) /\ ~UpstreamFailed(r)
      /\ (Ended(r) /\ UpstreamFailed(r)) =>
           /\ Len(sent[r]) = 1
           /\ sent[r][1].status = 502
           /\ extractions[r] = 0

\* What the contract of parseNumber takes for a number: a finite number, or a
\* string whose trimmed text is not empty and converts to a finite number.
NumberOf(v) ==
  IF v.t = "num" /\ IsFiniteNum(v.v) THEN v
  ELSE IF v.t = "str" /\ Trim(v.v) # "" /\ IsFiniteNum(StringToNumber(Trim(v.v)))
  THEN NumQ(StringToNumber(Trim(v.v)))
  ELSE Null

\* C4: parseNumber returns the number for a finite number and for a string that
\* converts to a finite number, and null for every other argument.
ParseNumberFiniteOrAbsent == call.returned => call.result = NumberOf(call.arg)

\* The entries of es whose key holds every word of words and whose value
\* parseNumber takes for a number, by their places in es.
NumericWith(es, words) ==
  {i \in 1..Len(es) :
     /\ \A w \in words : Includes(lc(es[i].key), w)
     /\ ~IsNullish(parseNumber(es[i].value))}

\* The per-ounce values of request r, as lines 267-273 compute them.
GoldFromOunceOf(r) ==
  goldFromOunce(Entries(r), Currency(r), GramToOunceSearch(Entries(r)))
SilverFromOunceOf(r) ==
  silverFromOunce(Entries(r), Currency(r), GramToOunceSearch(Entries(r)))

\* C5: when the payload has an entry whose key holds 'gold' and 'gram' and whose
\* value is numeric, goldPerGram is the number of the first such entry, unless
\* the request is not for usd and the per-ounce rule gave gold a value.
FirstGoldGramEntryWins ==
  \A r \in Reqs :
    (/\ StepsRan(r)
     /\ NumericWith(Entries(r), {"gold", "gram"}) # {}
     /\ ~(Currency(r) # "usd" /\ ~IsNullish(GoldFromOunceOf(r))))
      => locals[r].goldPerGram =
           parseNumber(Entries(r)[SetMin(NumericWith(Entries(r), {"gold", "gram"}))].value)

\* The numeric entries of es whose key is k.
NumericAt(es, k) ==
  {i \in 1..Len(es) : lc(es[i].key) = k /\ ~IsNullish(parseNumber(es[i].value))}

\* The conversion factor as the contract has it: the number of the first key
\* that holds gram_to_ounce, or else the default.
ContractFactor(es) ==
  IF NumericWith(es, {"gram_to_ounce"}) # {}
  THEN parseNumber(es[SetMin(NumericWith(es, {"gram_to_ounce"}))].value)
  ELSE DefaultGramToOunce

\* The number of the first entry of es with key k, times the contract's factor.
OunceTimesFactor(es, k) ==
  NumQ(Mul(parseNumber(es[SetMin(NumericAt(es, k))].value).v, ContractFactor(es).v))

\* C6: for a currency other than usd, a numeric silver_ounce_in_<currency> makes
\* silverPerGram that number times the conversion factor, and a numeric
\* ounce_in_<currency> does the same for goldPerGram; the factor is the number of
\* a gram_to_ounce key where the payload has one, and 0.0321507 otherwise.
PerOunceTimesFactor ==
  \A r \in Reqs :
    (StepsRan(r) /\ Currency(r) # "usd") =>
      /\ NumericAt(Entries(r), "silver_ounce_in_" \o Currency(r)) # {} =>
           locals[r].silverPerGram =
             OunceTimesFactor(Entries(r), "silver_ounce_in_" \o Currency(r))
      /\ NumericAt(Entries(r), "ounce_in_" \o Currency(r)) # {} =>
           locals[r].goldPerGram =
             OunceTimesFactor(Entries(r), "ounce_in_" \o Currency(r))

\* For usd, final keeps what steps 1-6 resolved and is otherwise that result or
\* fromOunce; for another currency, final is fromOunce where there is one.
FollowsOunceRule(currency, resolved, fromOunce, final) ==
  IF currency = "usd"
  THEN IF ~IsNullish(resolved) THEN final = resolved
       ELSE final = resolved \/ final = fromOunce
  ELSE ~IsNullish(fromOunce) => final = fromOunce

ConvertedBy(response, metal, factor) ==
  /\ Price(response, metal, "perGram").t = "num"
  /\ Price(response, metal, "perOunce") =
       NumQ(Div(Price(response, metal, "perGram").v, factor.v))
  /\ Price(response, metal, "perKg") =
       NumQ(Mul(Price(response, metal, "perGram").v, <<1000, 1>>))

\* C8: in a 200 the conversion factor is a finite number other than zero, and
\* for gold and for silver perOunce = perGram / factor and perKg = perGram * 1000.
UnitsFollowFactor ==
  \A r \in Reqs :
    Sent200(r) =>
      /\ locals[r].gramToOunce.t = "num"
      /\ IsFiniteNum(locals[r].gramToOunce.v)
      /\ locals[r].gramToOunce.v # Zero
      /\ ConvertedBy(sent[r][1], "gold", locals[r].gramToOunce)
      /\ ConvertedBy(sent[r][1], "silver", locals[r].gramToOunce)

\* The sum of the numbers of ns.
RECURSIVE SumOf(_)
SumOf(ns) == IF ns = <<>> THEN 0 ELSE Head(ns) + SumOf(Tail(ns))

\* The size of a value: a string counts its characters and three more, an array
\* or an object one more than its elements or its values, anything else one.
\* The text of an array or an object is at least as long as this size.
RECURSIVE SizeOf(_)
SizeOf(val) ==
  IF val.t = "str" THEN Len(val.v) + 3
  ELSE IF val.t = "arr" THEN 1 + SumOf([i \in 1..Len(val.v) |-> SizeOf(val.v[i])])
  ELSE IF val.t = "obj" THEN 1 + SumOf([i \in 1..Len(val.v) |-> SizeOf(val.v[i][2])])
  ELSE 1

\* What is left to traverse: the sizes of the values of the pending calls, and
\* one for each catch.
Remaining(pending) ==
  SumOf([i \in 1..Len(pending) |->
           IF pending[i].catch THEN 1 ELSE SizeOf(pending[i].val)])

\* The string s is JSON that helper decodes.
IsEncoded(s) ==
  /\ StartsWith(Trim(s), "{") \/ StartsWith(Trim(s), "[")
  /\ JSONParse(Trim(s)).ok

\* The greatest of ns, and 0 for none.
RECURSIVE MaxOf(_)
MaxOf(ns) ==
  IF ns = <<>> THEN 0
  ELSE IF Head(ns) > MaxOf(Tail(ns)) THEN Head(ns) ELSE MaxOf(Tail(ns))

\* How many times over the strings of val encode JSON.
RECURSIVE EncodingDepth(_)
EncodingDepth(val) ==
  IF val.t = "str"
  THEN IF IsEncoded(val.v) THEN 1 + EncodingDepth(JSONParse(Trim(val.v)).val) ELSE 0
  ELSE IF val.t = "arr" THEN MaxOf([i \in 1..Len(val.v) |-> EncodingDepth(val.v[i])])
  ELSE IF val.t = "obj"
  THEN MaxOf([i \in 1..Len(val.v) |-> EncodingDepth(val.v[i][2])])
  ELSE 0

\* C9: flatten terminates: what is left to traverse is a natural number that is
\* zero only when no call is pending, and every step of helper leaves strictly
\* less of it, a decode among them, the structure it goes on with being smaller
\* than the string it came from; so helper takes no more steps than the payload
\* has size.
FlattenTerminates ==
  /\ [](Remaining(stack) >= 0 /\ (Remaining(stack) = 0 <=> stack = <<>>))
  /\ [][Remaining(stack') < Remaining(stack)]_vars

\* flatten returned for a payload with JSON in a string in a string.
NestedEncodingFlattened ==
  /\ stack = <<>>
  /\ ~thrown
  /\ EncodingDepth(obj) >= 2
  /\ out # <<>>

\* The value with every string that encodes JSON replaced by what it encodes.
RECURSIVE FullyDecoded(_)
FullyDecoded(val) ==
  IF val.t = "str"
  THEN IF IsEncoded(val.v) THEN FullyDecoded(JSONParse(Trim(val.v)).val) ELSE val
  ELSE IF val.t = "arr" THEN Arr([i \in 1..Len(val.v) |-> FullyDecoded(val.v[i])])
  ELSE IF val.t = "obj"
  THEN Obj([i \in 1..Len(val.v) |-> <<val.v[i][1], FullyDecoded(val.v[i][2])>>])
  ELSE val

\* The scalar leaves of a fully decoded value, in order, as entries.
RECURSIVE ScalarLeaves(_, _), LeavesOfEach(_, _)
ScalarLeaves(val, path) ==
  IF IsObjectLike(val) THEN LeavesOfEach(Children(val, path), 1)
  ELSE <<LeafEntry(val, path)>>
LeavesOfEach(cs, i) ==
  IF i > Len(cs) THEN <<>>
  ELSE ScalarLeaves(cs[i][1], cs[i][2]) \o LeavesOfEach(cs, i + 1)

\* C10: no entry of out holds an object or an array, and when flatten returns,
\* out holds one entry for each scalar leaf of the fully decoded payload, in
\* order: the leaves of what a string encodes under the string's path and no
\* entry for that string, and one entry for a string that does not parse.  The
\* payload is obj, which no step of helper assigns.
FlattenEmitsTheLeaves ==
  /\ \A i \in 1..Len(out) : ~IsObjectLike(out[i].value)
  /\ (stack = <<>> /\ ~thrown) => out = ScalarLeaves(FullyDecoded(obj), "")

\* Request r got as far as its fetch.
Fetched(r) == pc[r] \in {"fetch", "text", "json", "done", "aborted"}

\* Request r ran its extractor on a body that came with a success status.
Extracted(r) == pc[r] = "done" /\ StatusOk(upstream[r].status)

StepOf(k, es, c, st) ==
  CASE k = 1 -> Step1(es, c, st)
    [] k = 2 -> Step2(es, c, st)
    [] k = 3 -> Step3(es, c, st)
    [] k = 4 -> Step4(es, c, st)
    [] k = 5 -> Step5(es, c, st)
    [] k = 6 -> Step6(es, c, st)

\* goldPerGram and silverPerGram after the first k steps.
RECURSIVE AfterStep(_, _, _)
AfterStep(k, es, c) ==
  IF k = 0 THEN Unresolved ELSE StepOf(k, es, c, AfterStep(k - 1, es, c))

\* A field that was resolved before a step is the same after it, and a field
\* that the step resolved is what the chain ends with.
KeptFrom(before, after, final) ==
  /\ ~IsNullish(before) => after = before
  /\ (IsNullish(before) /\ ~IsNullish(after)) => final = after

\* C12: in steps 1-6 a step leaves a price that an earlier step resolved as it
\* is, so each price after step 6 is what the earliest step that resolved it
\* assigned.
EarlierStepsWin ==
  \A r \in Reqs :
    StepsRan(r) =>
      /\ AfterStep(6, Entries(r), Currency(r)) = Heuristics(Entries(r), Currency(r))
      /\ \A k \in 1..6 :
           /\ KeptFrom(AfterStep(k - 1, Entries(r), Currency(r)).goldPerGram,
                       AfterStep(k, Entries(r), Currency(r)).goldPerGram,
                       Heuristics(Entries(r), Currency(r)).goldPerGram)
           /\ KeptFrom(AfterStep(k - 1, Entries(r), Currency(r)).silverPerGram,
                       AfterStep(k, Entries(r), Currency(r)).silverPerGram,
                       Heuristics(Entries(r), Currency(r)).silverPerGram)

\* A request ended with gold resolved by step 1 although step 2 finds an entry
\* with another number, and with silver resolved by a later step than gold.
LaterStepsHadOtherValues ==
  \E r \in Reqs :
    /\ StepsRan(r)
    /\ Sent200(r)
    /\ AfterStep(1, Entries(r), Currency(r)).goldPerGram
         = Heuristics(Entries(r), Currency(r)).goldPerGram
    /\ IsNullish(AfterStep(1, Entries(r), Currency(r)).silverPerGram)
    /\ findKey(Entries(r), "gram_in_" \o Currency(r)) # <<>>
    /\ parseNumber(findKey(Entries(r), "gram_in_" \o Currency(r))[1].value)
         \notin {Null, Heuristics(Entries(r), Currency(r)).goldPerGram}

\* The places in es of the candidates of step 5: the key holds 'gram', the value
\* is numeric, and for a currency other than usd the key holds no 'usd'.
GramCandidates(es, c) ==
  {i \in 1..Len(es) :
     /\ Includes(lc(es[i].key), "gram")
     /\ ~IsNullish(parseNumber(es[i].value))
     /\ (c = "usd" \/ ~Includes(lc(es[i].key), "usd"))}

\* The places among S whose number no other of S exceeds.
Largest(es, S) ==
  {i \in S : \A j \in S :
     CmpNum(parseNumber(es[i].value).v, parseNumber(es[j].value).v) >= 0}

\* goldPerGram is the largest number among the candidates S, and silverPerGram
\* the largest among the others, taken from another entry; with one candidate
\* silverPerGram stays unresolved, with none both do.
TopTwoOf(es, S, st) ==
  /\ S = {} => st = Unresolved
  /\ S # {} =>
       \E i \in Largest(es, S) :
         /\ st.goldPerGram = parseNumber(es[i].value)
         /\ IF S = {i} THEN st.silverPerGram = Null
            ELSE \E j \in Largest(es, S \ {i}) :
                   /\ st.silverPerGram = parseNumber(es[j].value)
                   /\ CmpNum(st.goldPerGram.v, st.silverPerGram.v) >= 0

\* C13: when steps 1-4 resolve neither price, step 5 makes goldPerGram the
\* largest and silverPerGram the second-largest number among the entries whose
\* key holds 'gram' (without those whose key holds 'usd' when the currency is
\* not usd), wherever they stand in the payload: gold is not below silver and
\* the two come from two entries.
StepFiveTakesTopTwo ==
  \A r \in Reqs :
    (StepsRan(r) /\ AfterStep(4, Entries(r), Currency(r)) = Unresolved) =>
      TopTwoOf(Entries(r), GramCandidates(Entries(r), Currency(r)),
               AfterStep(5, Entries(r), Currency(r)))

\* Step 5 ran on candidates of which a later one is larger than an earlier one,
\* and resolved both prices.
StepFiveReordered ==
  \E r \in Reqs :
    /\ StepsRan(r)
    /\ Sent200(r)
    /\ AfterStep(4, Entries(r), Currency(r)) = Unresolved
    /\ ~IsNullish(AfterStep(5, Entries(r), Currency(r)).silverPerGram)
    /\ \E i, j \in GramCandidates(Entries(r), Currency(r)) :
         /\ i < j
         /\ CmpNum(parseNumber(Entries(r)[j].value).v,
                   parseNumber(Entries(r)[i].value).v) > 0

\* The numbers a price can have when it is taken from the entry at place i of
\* es, or derived from it as a per-ounce value times the factor found in es.
ValuesFrom(es, i) ==
  {parseNumber(es[i].value)} \cup
  (IF IsNullish(GramToOunceSearch(es)) THEN {}
   ELSE {NumQ(Mul(parseNumber(es[i].value).v, GramToOunceSearch(es).v))})

\* The places of the numeric entries of es whose key does not hold 'silver'.
NotSilver(es) ==
  {i \in 1..Len(es) :
     ~Includes(lc(es[i].key), "silver") /\ ~IsNullish(parseNumber(es[i].value))}

\* C15: in a 200, goldPerGram is the number of an entry whose key does not hold
\* 'silver', or is derived from one: no step takes the gold price from a
\* silver-named entry.
GoldNeverFromSilver ==
  \A r \in Reqs :
    (StepsRan(r) /\ Sent200(r)) =>
      \E i \in NotSilver(Entries(r)) :
        locals[r].goldPerGram \in ValuesFrom(Entries(r), i)

\* The request this step started, if it started one.
Issued == requests'[Len(requests')]

\* A fetch that an interval starts is for the currency selected at that moment.
PollsSelected ==
  (Len(requests') > Len(requests) /\ Issued.by = "timer")
    => (mounted /\ Issued.curr = app.currency /\ app'.currency = app.currency)

\* A change of currency leaves no earlier interval, starts a fetch for the new
\* currency and leaves one new interval, for the new currency.
ChangeRestartsTimer ==
  (app'.currency # app.currency)
    => (/\ timers' \cap timers = {}
        /\ Len(requests') = Len(requests) + 1
        /\ Issued = Started(app'.currency, "effect")
        /\ \E t \in timers' : timers' = {t} /\ t.curr = app'.currency)

\* C14: while the client is mounted one interval is active and it polls the
\* selected currency, and none is active otherwise; a fetch that an interval
\* starts is for the currency selected at that moment; and a change of currency
\* cancels the earlier interval, starts a fetch for the new currency at once and
\* starts one new interval.
OneTimerForSelected ==
  /\ [](IF mounted
        THEN \E t \in timers : timers = {t} /\ t.curr = app.currency
        ELSE timers = {})
  /\ [][PollsSelected /\ ChangeRestartsTimer]_vars

\* After a change of currency the new interval started a fetch, for the new
\* currency.
PolledAfterChange ==
  /\ mounted
  /\ app.currency = "USD"
  /\ \E i \in 1..Len(requests) :
       /\ requests[i].by = "timer"
       /\ requests[i].curr = "USD"
       /\ \E j \in 1..(i - 1) : requests[j].by = "effect" /\ requests[j].curr = "USD"

\* C16: in the client, when no request is in flight and the request started last
\* gave rates, the rates on display are the ones it gave, which are for the
\* selected currency; and while a request is in flight the loading indicator is
\* on.
NewestRatesShown ==
  mounted =>
    /\ (InFlight = {} /\ requests # <<>> /\ requests[Len(requests)].ok)
         => /\ app.rates.of = Len(requests)
            /\ app.rates.currency = app.currency
    /\ ~app.loading => InFlight = {}

====
